---- MODULE Spec2Model ----
(***************************************************************************)
(* fog-math: the Math Document Model (src/src/math.rs) and the schema that *)
(* validates its serialized form (src/src/schema.rs).                      *)
(*                                                                         *)
(* The data model is a set of serde-derived types.  Each type is written   *)
(* here as the descriptor the derive macro works from (field names, field  *)
(* types, `default` and `skip_serializing_if` attributes), and Serialize / *)
(* Deserialize interpret those descriptors the way the derived impls do.   *)
(* The schema is written as the validator tree schema_doc() builds, and    *)
(* Validate walks a serialized value against it.                           *)
(***************************************************************************)
EXTENDS Integers, Sequences, FiniteSets, TLC

(***************************************************************************)
(* Integers.  A 64-bit wire integer n is the pair <<hi, lo>> with          *)
(* n = hi * 2^16 + lo and 0 <= lo < 2^16, so that values around 2^32 and   *)
(* -2^31 are representable exactly.                                        *)
(***************************************************************************)
Half == 2 ^ 16

BigLE(a, b) == a[1] < b[1] \/ (a[1] = b[1] /\ a[2] <= b[2])

BigPred(a) == IF a[2] = 0 THEN <<a[1] - 1, Half - 1>> ELSE <<a[1], a[2] - 1>>

BigSucc(a) == IF a[2] = Half - 1 THEN <<a[1] + 1, 0>> ELSE <<a[1], a[2] + 1>>

Zero == <<0, 0>>

One == <<0, 1>>

U32_MIN == Zero

U32_MAX == <<Half - 1, Half - 1>>

I32_MIN == <<-(Half \div 2), 0>>

I32_MAX == <<(Half \div 2) - 1, Half - 1>>

\* The values a u32 / an i32 field can hold.
FitsU32(n) == BigLE(U32_MIN, n) /\ BigLE(n, U32_MAX)

FitsI32(n) == BigLE(I32_MIN, n) /\ BigLE(n, I32_MAX)

(***************************************************************************)
(* Serialized values (fog_pack::types::Value), tagged by their kind.       *)
(***************************************************************************)
WNull == [t |-> "Null"]

WBool(b) == [t |-> "Bool", b |-> b]

WInt(i) == [t |-> "Int", i |-> i]

WStr(s) == [t |-> "Str", s |-> s]

WF32(f) == [t |-> "F32", f |-> f]

WArray(items) == [t |-> "Array", items |-> items]

WMap(m) == [t |-> "Map", m |-> m]

EmptyMap == [k \in {} |-> WNull]

\* m with key k bound to v (added or replaced).
MapPut(m, k, v) == [x \in DOMAIN m \cup {k} |-> IF x = k THEN v ELSE m[x]]

\* m without key k.
MapDel(m, k) == [x \in DOMAIN m \ {k} |-> m[x]]

(***************************************************************************)
(* In-memory values.  Option<T> is None or Some(x); an enum value is a     *)
(* one-field record from its variant name to its payload; a struct value   *)
(* is a record of its fields.                                              *)
(***************************************************************************)
None == [opt |-> "None"]

Some(x) == [opt |-> "Some", v |-> x]

Unit == <<>>

EnumVal(tag, payload) == [n \in {tag} |-> payload]

TagOf(x) == CHOOSE n \in DOMAIN x : TRUE

PayloadOf(x) == x[TagOf(x)]

\* char::default()
CharDefault == "0"

(***************************************************************************)
(* The helpers of math.rs named by the serde attributes.                   *)
(***************************************************************************)
is_false(b) == ~b

u32_is_one(v) == v = One

u32_zero == Zero

u32_one == One

(***************************************************************************)
(* Type descriptors.                                                       *)
(***************************************************************************)
TString == [ty |-> "String"]

TChar == [ty |-> "char"]

TBool == [ty |-> "bool"]

TU32 == [ty |-> "u32"]

TI32 == [ty |-> "i32"]

TF32 == [ty |-> "f32"]

TUnit == [ty |-> "unit"]

\* BTreeMap<String, fog_pack::types::Value>
TValueMap == [ty |-> "ValueMap"]

TOption(T) == [ty |-> "Option", of |-> T]

TVec(T) == [ty |-> "Vec", of |-> T]

\* A named struct or enum; Box<T> is transparent to serde.
TNamed(n) == [ty |-> "Named", name |-> n]

\* A struct field: `default` is "none", "default" or "u32_one";
\* `skip` is "never", "is_false", "is_none", "is_empty" or "u32_is_one".
Field(n, T, d, s) == [name |-> n, type |-> T, default |-> d, skip |-> s]

\* struct: `dflt` is TRUE when the struct carries #[serde(default)].
StructDef(dflt, fields) == [kind |-> "struct", dflt |-> dflt, fields |-> fields]

UnitVariant(n) == [name |-> n, shape |-> "unit", type |-> TUnit, fields |-> <<>>]

NewtypeVariant(n, T) == [name |-> n, shape |-> "newtype", type |-> T, fields |-> <<>>]

StructVariant(n, fields) == [name |-> n, shape |-> "struct", type |-> TUnit, fields |-> fields]

EnumDef(variants) == [kind |-> "enum", variants |-> variants]

Elem == TNamed("Element")

Variant ==
  EnumDef(<< UnitVariant("Normal"), UnitVariant("Bold"), UnitVariant("Italic"),
             UnitVariant("BoldItalic"), UnitVariant("DoubleStruck"),
             UnitVariant("BoldFraktur"), UnitVariant("Script"),
             UnitVariant("BoldScript"), UnitVariant("Fraktur"),
             UnitVariant("SansSerif"), UnitVariant("BoldSansSerif"),
             UnitVariant("SansSerifItalic"), UnitVariant("SansSerifBoldItalic"),
             UnitVariant("Monospace"), UnitVariant("Initial"),
             UnitVariant("Tailed"), UnitVariant("Looped"),
             UnitVariant("Stretched") >>)

ScriptLevel ==
  EnumDef(<< NewtypeVariant("Add", TI32), NewtypeVariant("Set", TU32) >>)

Element ==
  StructDef(FALSE,
    << Field("e", TNamed("MathElement"), "none", "never"),
       Field("a", TOption(TNamed("Attributes")), "none", "never") >>)

MathElement ==
  EnumDef(<<
    NewtypeVariant("Op", TChar),
    NewtypeVariant("Oper", TNamed("Operator")),
    NewtypeVariant("ResolvedOper", TNamed("ResolvedOperator")),
    NewtypeVariant("Text", TString),
    StructVariant("Id", << Field("t", TString, "none", "never"),
                           Field("normal", TBool, "default", "is_false") >>),
    NewtypeVariant("Num", TString),
    NewtypeVariant("Err", TString),
    NewtypeVariant("Space", TNamed("Space")),
    NewtypeVariant("Str", TString),
    NewtypeVariant("Phantom", TVec(Elem)),
    NewtypeVariant("Row", TVec(Elem)),
    NewtypeVariant("Padding", TNamed("Padding")),
    StructVariant("Frac", << Field("line_thickness", TOption(TF32), "default", "is_none"),
                             Field("num", Elem, "none", "never"),
                             Field("den", Elem, "none", "never") >>),
    NewtypeVariant("Sqrt", Elem),
    StructVariant("Root", << Field("base", Elem, "none", "never"),
                             Field("index", Elem, "none", "never") >>),
    StructVariant("Sup", << Field("base", Elem, "none", "never"),
                            Field("sup", Elem, "none", "never") >>),
    StructVariant("Sub", << Field("base", Elem, "none", "never"),
                            Field("sub", Elem, "none", "never") >>),
    StructVariant("SubSup", << Field("base", Elem, "none", "never"),
                               Field("sub", Elem, "none", "never"),
                               Field("sup", Elem, "none", "never") >>),
    StructVariant("Over", << Field("base", Elem, "none", "never"),
                             Field("over", Elem, "none", "never"),
                             Field("accent", TBool, "default", "is_false") >>),
    StructVariant("Under", << Field("base", Elem, "none", "never"),
                              Field("under", Elem, "none", "never"),
                              Field("accent_under", TBool, "default", "is_false") >>),
    StructVariant("UnderOver", << Field("base", Elem, "none", "never"),
                                  Field("under", Elem, "none", "never"),
                                  Field("over", Elem, "none", "never"),
                                  Field("accent", TBool, "default", "is_false"),
                                  Field("accent_under", TBool, "default", "is_false") >>),
    StructVariant("MultiScript", << Field("base", Elem, "none", "never"),
                                    Field("post", TVec(TNamed("Pair")), "default", "is_empty"),
                                    Field("pre", TVec(TNamed("Pair")), "default", "is_empty") >>),
    StructVariant("Table", << Field("rows", TVec(TNamed("TableRow")), "none", "never") >>)
  >>)

TableRow ==
  StructDef(TRUE,
    << Field("cells", TVec(TNamed("TableCell")), "none", "is_empty"),
       Field("a", TOption(TNamed("Attributes")), "none", "is_none") >>)

TableCell ==
  StructDef(FALSE,
    << Field("col_span", TU32, "u32_one", "u32_is_one"),
       Field("row_span", TU32, "u32_one", "u32_is_one"),
       Field("elems", TVec(Elem), "default", "is_empty"),
       Field("a", TOption(TNamed("Attributes")), "default", "is_none") >>)

Pair ==
  StructDef(FALSE,
    << Field("sup", Elem, "none", "never"),
       Field("sub", Elem, "none", "never") >>)

Padding ==
  StructDef(TRUE,
    << Field("elems", TVec(Elem), "none", "is_empty"),
       Field("width", TOption(TNamed("Length")), "none", "is_none"),
       Field("height", TOption(TNamed("Length")), "none", "is_none"),
       Field("depth", TOption(TNamed("Length")), "none", "is_none"),
       Field("lspace", TOption(TNamed("Length")), "none", "is_none"),
       Field("voffset", TOption(TNamed("Length")), "none", "is_none") >>)

Space ==
  StructDef(TRUE,
    << Field("width", TOption(TNamed("Length")), "none", "is_none"),
       Field("height", TOption(TNamed("Length")), "none", "is_none"),
       Field("depth", TOption(TNamed("Length")), "none", "is_none") >>)

OpForm ==
  EnumDef(<< UnitVariant("Prefix"), UnitVariant("Postfix"), UnitVariant("Infix") >>)

Operator ==
  StructDef(TRUE,
    << Field("t", TChar, "none", "never"),
       Field("form", TOption(TNamed("OpForm")), "none", "is_none"),
       Field("max_size", TOption(TNamed("LengthOrFraction")), "none", "is_none"),
       Field("min_size", TOption(TNamed("LengthOrFraction")), "none", "is_none"),
       Field("lspace", TOption(TNamed("LengthOrFraction")), "none", "is_none"),
       Field("rspace", TOption(TNamed("LengthOrFraction")), "none", "is_none"),
       Field("stretchy", TOption(TBool), "none", "is_none"),
       Field("symmetric", TOption(TBool), "none", "is_none"),
       Field("large_op", TOption(TBool), "none", "is_none"),
       Field("movable_limits", TOption(TBool), "none", "is_none"),
       Field("separator", TOption(TBool), "none", "is_none"),
       Field("fence", TOption(TBool), "none", "is_none") >>)

ResolvedOperator ==
  StructDef(FALSE,
    << Field("t", TChar, "none", "never"),
       Field("form", TNamed("OpForm"), "none", "never"),
       Field("max_size", TNamed("Length"), "none", "never"),
       Field("min_size", TNamed("Length"), "none", "never"),
       Field("lspace", TNamed("Length"), "none", "never"),
       Field("rspace", TNamed("Length"), "none", "never"),
       Field("stretchy", TBool, "none", "never"),
       Field("symmetric", TBool, "none", "never"),
       Field("large_op", TBool, "none", "never"),
       Field("movable_limits", TBool, "none", "never"),
       Field("separator", TBool, "none", "never"),
       Field("fence", TBool, "none", "never") >>)

LengthOrFraction ==
  EnumDef(<< NewtypeVariant("Em", TF32), NewtypeVariant("Ex", TF32),
             NewtypeVariant("Frac", TF32) >>)

Length ==
  EnumDef(<< NewtypeVariant("Em", TF32), NewtypeVariant("Ex", TF32) >>)

Attributes ==
  StructDef(TRUE,
    << Field("class", TVec(TString), "none", "is_empty"),
       Field("rtl", TBool, "none", "is_false"),
       Field("display_style", TOption(TBool), "none", "is_none"),
       Field("variant", TOption(TNamed("Variant")), "none", "is_none"),
       Field("script_level", TOption(TNamed("ScriptLevel")), "none", "is_none"),
       Field("data", TOption(TValueMap), "none", "is_none") >>)

\* The declaration a type name resolves to.
TypeDef(n) ==
  CASE n = "Variant" -> Variant
    [] n = "ScriptLevel" -> ScriptLevel
    [] n = "Element" -> Element
    [] n = "MathElement" -> MathElement
    [] n = "TableRow" -> TableRow
    [] n = "TableCell" -> TableCell
    [] n = "Pair" -> Pair
    [] n = "Padding" -> Padding
    [] n = "Space" -> Space
    [] n = "OpForm" -> OpForm
    [] n = "Operator" -> Operator
    [] n = "ResolvedOperator" -> ResolvedOperator
    [] n = "LengthOrFraction" -> LengthOrFraction
    [] n = "Length" -> Length
    [] n = "Attributes" -> Attributes

VariantNames(d) == {d.variants[i].name : i \in 1..Len(d.variants)}

FieldNames(fields) == {fields[i].name : i \in 1..Len(fields)}

FieldOf(fields, n) == fields[CHOOSE i \in 1..Len(fields) : fields[i].name = n]

VariantOf(d, n) == d.variants[CHOOSE i \in 1..Len(d.variants) : d.variants[i].name = n]

(***************************************************************************)
(* #[derive(Serialize)]: a struct is a map of its fields, less the fields  *)
(* its skip_serializing_if predicate elides; a unit variant is its name; a *)
(* variant with a payload is a one-entry map from its name to the payload; *)
(* None is Null and Some(x) is x.                                          *)
(***************************************************************************)
Skip(rule, x) ==
  CASE rule = "never" -> FALSE
    [] rule = "is_false" -> is_false(x)
    [] rule = "is_none" -> x.opt = "None"
    [] rule = "is_empty" -> Len(x) = 0
    [] rule = "u32_is_one" -> u32_is_one(x)

RECURSIVE Serialize(_, _)

SerializeFields(fields, x) ==
  LET kept == {n \in FieldNames(fields) : ~Skip(FieldOf(fields, n).skip, x[n])}
  IN  WMap([n \in kept |-> Serialize(FieldOf(fields, n).type, x[n])])

SerializeEnum(d, x) ==
  LET vr == VariantOf(d, TagOf(x))
  IN  CASE vr.shape = "unit" -> WStr(vr.name)
        [] vr.shape = "newtype" ->
             WMap([n \in {vr.name} |-> Serialize(vr.type, PayloadOf(x))])
        [] vr.shape = "struct" ->
             WMap([n \in {vr.name} |-> SerializeFields(vr.fields, PayloadOf(x))])

Serialize(T, x) ==
  CASE T.ty = "String" -> WStr(x)
    [] T.ty = "char" -> WStr(x)
    [] T.ty = "bool" -> WBool(x)
    [] T.ty = "u32" -> WInt(x)
    [] T.ty = "i32" -> WInt(x)
    [] T.ty = "f32" -> WF32(x)
    [] T.ty = "ValueMap" -> WMap(x)
    [] T.ty = "Option" -> IF x.opt = "None" THEN WNull ELSE Serialize(T.of, x.v)
    [] T.ty = "Vec" -> WArray([i \in 1..Len(x) |-> Serialize(T.of, x[i])])
    [] T.ty = "Named" ->
         LET d == TypeDef(T.name)
         IN  IF d.kind = "struct" THEN SerializeFields(d.fields, x)
             ELSE SerializeEnum(d, x)

(***************************************************************************)
(* #[derive(Deserialize)]: Ok(x) or Err.  A field absent from the map      *)
(* takes its `default` function, else the container default, else None for *)
(* an Option, else it is an error.  Unknown keys are ignored.              *)
(* Deserializes(T, w) says whether the result is Ok, and Deserialized(T,w) *)
(* is the value then.                                                      *)
(***************************************************************************)
Ok(x) == [ok |-> TRUE, v |-> x]

Err == [ok |-> FALSE]

\* Default::default() of the field types that are ever defaulted.
DefaultOf(T) ==
  CASE T.ty = "String" -> ""
    [] T.ty = "char" -> CharDefault
    [] T.ty = "bool" -> FALSE
    [] T.ty = "u32" -> Zero
    [] T.ty = "i32" -> Zero
    [] T.ty = "Option" -> None
    [] T.ty = "Vec" -> <<>>

\* Whether an absent field can be filled in.
HasMissing(f, containerDefault) ==
  \/ f.default \in {"u32_one", "default"}
  \/ containerDefault
  \/ f.type.ty = "Option"

\* What an absent field is filled in with.
Missing(f, containerDefault) ==
  CASE f.default = "u32_one" -> u32_one
    [] f.default = "default" -> DefaultOf(f.type)
    [] f.default = "none" /\ containerDefault -> DefaultOf(f.type)
    [] f.default = "none" /\ ~containerDefault -> None

RECURSIVE Deserializes(_, _), Deserialized(_, _)

FieldsDeserialize(fields, containerDefault, w) ==
  /\ w.t = "Map"
  /\ \A n \in FieldNames(fields) :
       IF n \in DOMAIN w.m
       THEN Deserializes(FieldOf(fields, n).type, w.m[n])
       ELSE HasMissing(FieldOf(fields, n), containerDefault)

DeserializedFields(fields, containerDefault, w) ==
  [n \in FieldNames(fields) |->
     IF n \in DOMAIN w.m
     THEN Deserialized(FieldOf(fields, n).type, w.m[n])
     ELSE Missing(FieldOf(fields, n), containerDefault)]

\* The variant a serialized enum names, if it has the shape of one:
\* a string for a unit variant, a one-entry map for the others.
EnumKey(w) == IF w.t = "Str" THEN w.s ELSE CHOOSE k \in DOMAIN w.m : TRUE

VariantDeserializes(vr, w) ==
  CASE vr.shape = "unit" -> FALSE
    [] vr.shape = "newtype" -> Deserializes(vr.type, w)
    [] vr.shape = "struct" -> FieldsDeserialize(vr.fields, FALSE, w)

EnumDeserializes(d, w) ==
  IF w.t = "Str"
  THEN w.s \in VariantNames(d) /\ VariantOf(d, w.s).shape = "unit"
  ELSE /\ w.t = "Map"
       /\ Cardinality(DOMAIN w.m) = 1
       /\ EnumKey(w) \in VariantNames(d)
       /\ VariantDeserializes(VariantOf(d, EnumKey(w)), w.m[EnumKey(w)])

DeserializedEnum(d, w) ==
  LET vr == VariantOf(d, EnumKey(w))
  IN  CASE vr.shape = "unit" -> EnumVal(vr.name, Unit)
        [] vr.shape = "newtype" ->
             EnumVal(vr.name, Deserialized(vr.type, w.m[vr.name]))
        [] vr.shape = "struct" ->
             EnumVal(vr.name, DeserializedFields(vr.fields, FALSE, w.m[vr.name]))

Deserializes(T, w) ==
  CASE T.ty = "String" -> w.t = "Str"
    [] T.ty = "char" -> w.t = "Str" /\ Len(w.s) = 1
    [] T.ty = "bool" -> w.t = "Bool"
    [] T.ty = "u32" -> w.t = "Int" /\ FitsU32(w.i)
    [] T.ty = "i32" -> w.t = "Int" /\ FitsI32(w.i)
    [] T.ty = "f32" -> w.t = "F32"
    [] T.ty = "ValueMap" -> w.t = "Map"
    [] T.ty = "Option" -> w.t = "Null" \/ Deserializes(T.of, w)
    [] T.ty = "Vec" ->
         /\ w.t = "Array"
         /\ \A i \in 1..Len(w.items) : Deserializes(T.of, w.items[i])
    [] T.ty = "Named" ->
         LET d == TypeDef(T.name)
         IN  IF d.kind = "struct" THEN FieldsDeserialize(d.fields, d.dflt, w)
             ELSE EnumDeserializes(d, w)

Deserialized(T, w) ==
  CASE T.ty = "String" -> w.s
    [] T.ty = "char" -> w.s
    [] T.ty = "bool" -> w.b
    [] T.ty = "u32" -> w.i
    [] T.ty = "i32" -> w.i
    [] T.ty = "f32" -> w.f
    [] T.ty = "ValueMap" -> w.m
    [] T.ty = "Option" ->
         IF w.t = "Null" THEN None ELSE Some(Deserialized(T.of, w))
    [] T.ty = "Vec" -> [i \in 1..Len(w.items) |-> Deserialized(T.of, w.items[i])]
    [] T.ty = "Named" ->
         LET d == TypeDef(T.name)
         IN  IF d.kind = "struct" THEN DeserializedFields(d.fields, d.dflt, w)
             ELSE DeserializedEnum(d, w)

Deserialize(T, w) == IF Deserializes(T, w) THEN Ok(Deserialized(T, w)) ELSE Err

(***************************************************************************)
(* fog_pack validators, as the builder calls of schema.rs assemble them.   *)
(***************************************************************************)
NoPayload == [v |-> "NoPayload"]

NoValidator == [v |-> "Absent"]

BoolValidatorNew == [v |-> "Bool"]

F32ValidatorNew == [v |-> "F32"]

ValidatorNewAny == [v |-> "Any"]

ValidatorNewRef(n) == [v |-> "Ref", name |-> n]

\* StrValidator::new(): no character limit below u32::MAX, no `in` list.
StrValidatorNew == [v |-> "Str", max_char |-> U32_MAX, in |-> {}]

max_char(sv, n) == [sv EXCEPT !.max_char = <<0, n>>]

in_add(sv, x) == [sv EXCEPT !.in = @ \cup {x}]

\* IntValidator::new(): bounded only by the wire integer's own range.
IntValidatorNew == [v |-> "Int", has_min |-> FALSE, min |-> Zero, has_max |-> FALSE, max |-> Zero]

min(iv, n) == [iv EXCEPT !.has_min = TRUE, !.min = n]

max(iv, n) == [iv EXCEPT !.has_max = TRUE, !.max = n]

ArrayValidatorNew == [v |-> "Array", items |-> ValidatorNewAny]

items(av, vd) == [av EXCEPT !.items = vd]

MapValidatorNew == [v |-> "Map", req |-> EmptyMap, opt |-> EmptyMap, values |-> NoValidator]

req_add(mv, k, vd) == [mv EXCEPT !.req = MapPut(@, k, vd)]

opt_add(mv, k, vd) == [mv EXCEPT !.opt = MapPut(@, k, vd)]

values(mv, vd) == [mv EXCEPT !.values = vd]

EnumValidatorNew == [v |-> "Enum", variants |-> EmptyMap]

insert(ev, n, payload) == [ev EXCEPT !.variants = MapPut(@, n, payload)]

(***************************************************************************)
(* Validation of a serialized value against a validator, with by-name      *)
(* references resolved in the schema's type registry.                      *)
(***************************************************************************)
RECURSIVE Validate(_, _, _)

ValidateStr(vd, w) ==
  /\ w.t = "Str"
  /\ BigLE(<<0, Len(w.s)>>, vd.max_char)
  /\ (vd.in = {} \/ w.s \in vd.in)

ValidateInt(vd, w) ==
  /\ w.t = "Int"
  /\ (vd.has_min => BigLE(vd.min, w.i))
  /\ (vd.has_max => BigLE(w.i, vd.max))

ValidateMap(types, vd, w) ==
  /\ w.t = "Map"
  /\ DOMAIN vd.req \subseteq DOMAIN w.m
  /\ \A k \in DOMAIN w.m :
       IF k \in DOMAIN vd.req THEN Validate(types, vd.req[k], w.m[k])
       ELSE IF k \in DOMAIN vd.opt THEN Validate(types, vd.opt[k], w.m[k])
       ELSE IF vd.values.v # "Absent" THEN Validate(types, vd.values, w.m[k])
       ELSE FALSE

ValidateEnum(types, vd, w) ==
  CASE w.t = "Str" ->
         /\ w.s \in DOMAIN vd.variants
         /\ vd.variants[w.s].v = "NoPayload"
    [] w.t = "Map" ->
         /\ Cardinality(DOMAIN w.m) = 1
         /\ LET k == CHOOSE k \in DOMAIN w.m : TRUE
            IN  /\ k \in DOMAIN vd.variants
                /\ vd.variants[k].v # "NoPayload"
                /\ Validate(types, vd.variants[k], w.m[k])
    [] OTHER -> FALSE

Validate(types, vd, w) ==
  CASE vd.v = "Any" -> TRUE
    [] vd.v = "Bool" -> w.t = "Bool"
    [] vd.v = "F32" -> w.t = "F32"
    [] vd.v = "Str" -> ValidateStr(vd, w)
    [] vd.v = "Int" -> ValidateInt(vd, w)
    [] vd.v = "Array" ->
         /\ w.t = "Array"
         /\ \A i \in 1..Len(w.items) : Validate(types, vd.items, w.items[i])
    [] vd.v = "Map" -> ValidateMap(types, vd, w)
    [] vd.v = "Enum" -> ValidateEnum(types, vd, w)
    [] vd.v = "Ref" ->
         /\ vd.name \in DOMAIN types
         /\ Validate(types, types[vd.name], w)

(***************************************************************************)
(* schema_doc(): the root validator and the seven registered fragments.    *)
(***************************************************************************)
RootValidator == items(ArrayValidatorNew, EnumValidatorNew)

FormEnum ==
  insert(insert(insert(EnumValidatorNew, "Prefix", NoPayload), "Postfix", NoPayload),
         "Infix", NoPayload)

OpFormWithoutInfix ==
  insert(insert(EnumValidatorNew, "Prefix", NoPayload), "Postfix", NoPayload)

OpFormFragment == FormEnum

VariantValidator ==
  in_add(in_add(in_add(in_add(in_add(in_add(in_add(in_add(in_add(
  in_add(in_add(in_add(in_add(in_add(in_add(in_add(in_add(in_add(
    StrValidatorNew,
    "Normal"), "Bold"), "Italic"), "BoldItalic"), "DoubleStruck"), "BoldFraktur"),
    "Script"), "BoldScript"), "Fraktur"), "SansSerif"), "BoldSansSerif"),
    "SansSerifItalic"), "SansSerifBoldItalic"), "Monospace"), "Initial"),
    "Tailed"), "Looped"), "Stretched")

ScriptLevelSet == max(min(IntValidatorNew, U32_MIN), U32_MAX)

ScriptLevelAdd == max(min(IntValidatorNew, I32_MIN), I32_MAX)

ScriptLevelValidator ==
  insert(insert(EnumValidatorNew, "Set", ScriptLevelSet), "Add", ScriptLevelAdd)

AttributesFragment ==
  opt_add(opt_add(opt_add(opt_add(opt_add(opt_add(MapValidatorNew,
    "class", items(ArrayValidatorNew, StrValidatorNew)),
    "rtl", BoolValidatorNew),
    "display_style", BoolValidatorNew),
    "variant", VariantValidator),
    "script_level", ScriptLevelValidator),
    "data", values(MapValidatorNew, ValidatorNewAny))

\* A Length type that also takes a fraction.
LengthFragmentWithFrac ==
  insert(insert(insert(EnumValidatorNew, "Em", F32ValidatorNew), "Ex", F32ValidatorNew),
         "Frac", F32ValidatorNew)

LengthFragment ==
  insert(insert(EnumValidatorNew, "Em", F32ValidatorNew), "Ex", F32ValidatorNew)

LengthOrFractionFragment ==
  insert(insert(insert(EnumValidatorNew, "Em", F32ValidatorNew), "Ex", F32ValidatorNew),
         "Frac", F32ValidatorNew)

RefElement == ValidatorNewRef("Element")

PairFragment ==
  req_add(req_add(MapValidatorNew, "sup", RefElement), "sub", RefElement)

CharValidator == max_char(StrValidatorNew, 1)

OperPayload ==
  opt_add(opt_add(opt_add(opt_add(opt_add(opt_add(opt_add(opt_add(opt_add(opt_add(
  opt_add(req_add(MapValidatorNew,
    "t", CharValidator),
    "form", FormEnum),
    "max_size", ValidatorNewRef("LengthOrFraction")),
    "min_size", ValidatorNewRef("LengthOrFraction")),
    "lspace", ValidatorNewRef("LengthOrFraction")),
    "rspace", ValidatorNewRef("LengthOrFraction")),
    "stretchy", BoolValidatorNew),
    "symmetric", BoolValidatorNew),
    "large_op", BoolValidatorNew),
    "movable_limits", BoolValidatorNew),
    "separator", BoolValidatorNew),
    "fence", BoolValidatorNew)

ResolvedOperPayloadOptionalFence ==
  opt_add(req_add(req_add(req_add(req_add(req_add(req_add(req_add(req_add(req_add(
  req_add(req_add(MapValidatorNew,
    "t", CharValidator),
    "form", FormEnum),
    "max_size", ValidatorNewRef("Length")),
    "min_size", ValidatorNewRef("Length")),
    "lspace", ValidatorNewRef("Length")),
    "rspace", ValidatorNewRef("Length")),
    "stretchy", BoolValidatorNew),
    "symmetric", BoolValidatorNew),
    "large_op", BoolValidatorNew),
    "movable_limits", BoolValidatorNew),
    "separator", BoolValidatorNew),
    "fence", BoolValidatorNew)

ResolvedOperPayload ==
  req_add(req_add(req_add(req_add(req_add(req_add(req_add(req_add(req_add(req_add(
  req_add(req_add(MapValidatorNew,
    "t", CharValidator),
    "form", FormEnum),
    "max_size", ValidatorNewRef("Length")),
    "min_size", ValidatorNewRef("Length")),
    "lspace", ValidatorNewRef("Length")),
    "rspace", ValidatorNewRef("Length")),
    "stretchy", BoolValidatorNew),
    "symmetric", BoolValidatorNew),
    "large_op", BoolValidatorNew),
    "movable_limits", BoolValidatorNew),
    "separator", BoolValidatorNew),
    "fence", BoolValidatorNew)

IdPayload ==
  opt_add(req_add(MapValidatorNew, "t", StrValidatorNew), "normal", BoolValidatorNew)

SpacePayload ==
  opt_add(opt_add(opt_add(MapValidatorNew,
    "width", ValidatorNewRef("Length")),
    "height", ValidatorNewRef("Length")),
    "depth", ValidatorNewRef("Length"))

ElementArray == items(ArrayValidatorNew, RefElement)

PaddingPayload ==
  opt_add(opt_add(opt_add(opt_add(opt_add(opt_add(MapValidatorNew,
    "elems", ElementArray),
    "width", ValidatorNewRef("Length")),
    "height", ValidatorNewRef("Length")),
    "depth", ValidatorNewRef("Length")),
    "lspace", ValidatorNewRef("Length")),
    "voffset", ValidatorNewRef("Length"))

FracPayloadOptionalDen ==
  opt_add(opt_add(req_add(MapValidatorNew, "num", RefElement), "den", RefElement),
          "line_thickness", F32ValidatorNew)

FracPayload ==
  opt_add(req_add(req_add(MapValidatorNew, "num", RefElement), "den", RefElement),
          "line_thickness", F32ValidatorNew)

RootPayload ==
  req_add(req_add(MapValidatorNew, "base", RefElement), "index", RefElement)

SupPayload ==
  req_add(req_add(MapValidatorNew, "base", RefElement), "sup", RefElement)

SubPayload ==
  req_add(req_add(MapValidatorNew, "base", RefElement), "sub", RefElement)

SubSupPayload ==
  req_add(req_add(req_add(MapValidatorNew, "base", RefElement), "sup", RefElement),
          "sub", RefElement)

OverPayload ==
  opt_add(req_add(req_add(MapValidatorNew, "base", RefElement), "over", RefElement),
          "accent", BoolValidatorNew)

UnderPayload ==
  opt_add(req_add(req_add(MapValidatorNew, "base", RefElement), "under", RefElement),
          "accent_under", BoolValidatorNew)

UnderOverPayload ==
  opt_add(opt_add(req_add(req_add(req_add(MapValidatorNew,
    "base", RefElement), "under", RefElement), "over", RefElement),
    "accent", BoolValidatorNew), "accent_under", BoolValidatorNew)

PairArray == items(ArrayValidatorNew, ValidatorNewRef("Pair"))

MultiScriptPayload ==
  opt_add(opt_add(req_add(MapValidatorNew, "base", RefElement),
    "post", PairArray), "pre", PairArray)

TableRowValidator ==
  opt_add(opt_add(MapValidatorNew, "a", ValidatorNewRef("Attributes")),
    "cells", items(ArrayValidatorNew, ValidatorNewRef("TableCell")))

TablePayload == items(ArrayValidatorNew, TableRowValidator)

ElementEnum ==
  insert(insert(insert(insert(insert(insert(insert(insert(insert(insert(insert(
  insert(insert(insert(insert(insert(insert(insert(insert(insert(insert(insert(
  insert(EnumValidatorNew,
    "Op", CharValidator),
    "Oper", OperPayload),
    "ResolvedOper", ResolvedOperPayload),
    "Text", StrValidatorNew),
    "Id", IdPayload),
    "Num", StrValidatorNew),
    "Err", StrValidatorNew),
    "Space", SpacePayload),
    "Str", StrValidatorNew),
    "Phantom", ElementArray),
    "Row", ElementArray),
    "Padding", PaddingPayload),
    "Frac", FracPayload),
    "Sqrt", RefElement),
    "Root", RootPayload),
    "Sup", SupPayload),
    "Sub", SubPayload),
    "SubSup", SubSupPayload),
    "Over", OverPayload),
    "Under", UnderPayload),
    "UnderOver", UnderOverPayload),
    "MultiScript", MultiScriptPayload),
    "Table", TablePayload)

ElementFragment ==
  req_add(opt_add(MapValidatorNew, "a", ValidatorNewRef("Attributes")), "e", ElementEnum)

SpanValidatorI32 == max(min(IntValidatorNew, Zero), I32_MAX)

SpanValidator == max(min(IntValidatorNew, Zero), U32_MAX)

TableCellFragmentRequiredSpan ==
  opt_add(opt_add(opt_add(req_add(MapValidatorNew,
    "col_span", SpanValidator),
    "row_span", SpanValidator),
    "elems", ElementArray),
    "a", ValidatorNewRef("Attributes"))

TableCellFragment ==
  opt_add(opt_add(opt_add(opt_add(MapValidatorNew,
    "col_span", SpanValidator),
    "row_span", SpanValidator),
    "elems", ElementArray),
    "a", ValidatorNewRef("Attributes"))

\* The type_add calls, in the order schema_doc() makes them.
\* A chain of type_add calls that stops before "TableCell".
TypeFragmentsWithoutTableCell ==
  << [name |-> "OpForm", vd |-> OpFormFragment],
     [name |-> "Attributes", vd |-> AttributesFragment],
     [name |-> "Length", vd |-> LengthFragment],
     [name |-> "LengthOrFraction", vd |-> LengthOrFractionFragment],
     [name |-> "Pair", vd |-> PairFragment],
     [name |-> "Element", vd |-> ElementFragment] >>

TypeFragments ==
  << [name |-> "OpForm", vd |-> OpFormFragment],
     [name |-> "Attributes", vd |-> AttributesFragment],
     [name |-> "Length", vd |-> LengthFragment],
     [name |-> "LengthOrFraction", vd |-> LengthOrFractionFragment],
     [name |-> "Pair", vd |-> PairFragment],
     [name |-> "Element", vd |-> ElementFragment],
     [name |-> "TableCell", vd |-> TableCellFragment] >>

SchemaBuilderNew(vd) ==
  [doc |-> vd, types |-> EmptyMap, name |-> "", version |-> 0, description |-> ""]

type_add(b, n, vd) == [b EXCEPT !.types = MapPut(@, n, vd)]

\* The builder after the first k type_add calls.
RECURSIVE BuilderAfter(_)
BuilderAfter(k) ==
  IF k = 0 THEN SchemaBuilderNew(RootValidator)
  ELSE type_add(BuilderAfter(k - 1), TypeFragments[k].name, TypeFragments[k].vd)

\* .name("fog-math").version(1).description(..).build()
SchemaBuild(b) ==
  [b EXCEPT !.name = "fog-math", !.version = 1,
            !.description = "Formatted math, closely matching MathML."]

SchemaDoc == SchemaBuild(BuilderAfter(Len(TypeFragments)))

SchemaTypes == SchemaDoc.types

(***************************************************************************)
(* The documents the model is checked on: every variant of MathElement,    *)
(* every field of every struct at its default and away from it, to a       *)
(* bounded nesting depth and sequence length.                              *)
(***************************************************************************)
\* Nesting depth of composite nodes.
MaxDepth == 2

\* Length of child sequences (Row, Phantom, elems, pre, post, cells).
MaxLen == 2

\* Number of rows of a Table.
MaxRows == 1

Chars == {"+", "x"}

Strings == {"", "1", "ab"}

\* f32 values, by name.
F32s == {"0.0", "-1.5"}

SeqsUpTo(S, n) == UNION {[1..k -> S] : k \in 0..n}

Lengths == {EnumVal(u, f) : u \in {"Em", "Ex"}, f \in F32s}

LengthOrFractions == {EnumVal(u, f) : u \in {"Em", "Ex", "Frac"}, f \in F32s}

OptOf(S) == {None} \cup {Some(x) : x \in S}

Forms == {EnumVal(n, Unit) : n \in VariantNames(OpForm)}

Variants == {EnumVal(n, Unit) : n \in VariantNames(Variant)}

ScriptLevels ==
  {EnumVal("Add", n) : n \in {I32_MIN, <<-1, Half - 1>>, Zero, I32_MAX}}
    \cup {EnumVal("Set", n) : n \in {Zero, One, U32_MAX}}

DataMaps == {EmptyMap, [k \in {"k"} |-> WInt(<<0, 7>>)], [k \in {"k", "n"} |-> WNull]}

\* Attributes::default()
DefaultAttrs ==
  [class |-> <<>>, rtl |-> FALSE, display_style |-> None, variant |-> None,
   script_level |-> None, data |-> None]

FullAttrs ==
  [class |-> <<"c", "d">>, rtl |-> TRUE, display_style |-> Some(TRUE),
   variant |-> Some(EnumVal("Bold", Unit)), script_level |-> Some(EnumVal("Set", U32_MAX)),
   data |-> Some([k \in {"k"} |-> WInt(<<0, 7>>)])]

AttrSet ==
  {DefaultAttrs, FullAttrs}
    \cup {[DefaultAttrs EXCEPT !.class = c] : c \in SeqsUpTo({"c"}, MaxLen)}
    \cup {[DefaultAttrs EXCEPT !.rtl = TRUE]}
    \cup {[DefaultAttrs EXCEPT !.display_style = Some(b)] : b \in BOOLEAN}
    \cup {[DefaultAttrs EXCEPT !.variant = Some(x)] : x \in Variants}
    \cup {[DefaultAttrs EXCEPT !.script_level = Some(x)] : x \in ScriptLevels}
    \cup {[DefaultAttrs EXCEPT !.data = Some(x)] : x \in DataMaps}

Elt(node, a) == [e |-> node, a |-> a]

\* Operator::default() with text c.
PlainOperator(c) ==
  [t |-> c, form |-> None, max_size |-> None, min_size |-> None, lspace |-> None,
   rspace |-> None, stretchy |-> None, symmetric |-> None, large_op |-> None,
   movable_limits |-> None, separator |-> None, fence |-> None]

Operators ==
  {PlainOperator(c) : c \in Chars \cup {CharDefault}}
    \cup {[PlainOperator("+") EXCEPT !.form = Some(x)] : x \in Forms}
    \cup {[PlainOperator("+") EXCEPT ![f] = Some(x)] :
            f \in {"max_size", "min_size", "lspace", "rspace"}, x \in LengthOrFractions}
    \cup {[PlainOperator("+") EXCEPT ![f] = Some(b)] :
            f \in {"stretchy", "symmetric", "large_op", "movable_limits",
                   "separator", "fence"}, b \in BOOLEAN}
    \cup {[t |-> "x", form |-> Some(x), max_size |-> Some(l), min_size |-> Some(l),
           lspace |-> Some(l), rspace |-> Some(l), stretchy |-> Some(b),
           symmetric |-> Some(b), large_op |-> Some(~b), movable_limits |-> Some(b),
           separator |-> Some(~b), fence |-> Some(b)] :
            x \in Forms, l \in {EnumVal("Frac", "0.0")}, b \in BOOLEAN}

ResolvedOperators ==
  {[t |-> c, form |-> x, max_size |-> l, min_size |-> EnumVal("Ex", "0.0"),
    lspace |-> EnumVal("Em", "-1.5"), rspace |-> l, stretchy |-> b, symmetric |-> ~b,
    large_op |-> b, movable_limits |-> FALSE, separator |-> TRUE, fence |-> b] :
     c \in {"+"}, x \in Forms, l \in Lengths, b \in BOOLEAN}

Spaces == [width : OptOf(Lengths), height : OptOf({EnumVal("Ex", "0.0")}),
           depth : OptOf({EnumVal("Em", "-1.5")})]

\* Padding::default() but for `elems`.
PlainPadding(es) ==
  [elems |-> es, width |-> None, height |-> None, depth |-> None, lspace |-> None,
   voffset |-> None]

Paddings(K) ==
  {PlainPadding(es) : es \in SeqsUpTo(K, MaxLen)}
    \cup {[PlainPadding(<<>>) EXCEPT ![f] = Some(l)] :
            f \in {"width", "height", "depth", "lspace", "voffset"}, l \in Lengths}

SpanVals == {Zero, One, <<0, 2>>, U32_MAX}

Cells(K) ==
  [col_span : SpanVals, row_span : {One, U32_MAX}, elems : SeqsUpTo(K, 1),
   a : {None, Some(DefaultAttrs)}]

TableCells(K) ==
  [col_span : SpanVals, row_span : SpanVals, elems : SeqsUpTo(K, MaxLen),
   a : {None, Some(FullAttrs)}]

RowCells(K) ==
  {[col_span |-> One, row_span |-> One, elems |-> <<>>, a |-> None]}
    \cup {[col_span |-> <<0, 2>>, row_span |-> U32_MAX, elems |-> <<k>>,
           a |-> Some(DefaultAttrs)] : k \in K}

\* Rows of up to MaxLen copies of one cell.
Rows(K) ==
  {[cells |-> [i \in 1..k |-> c], a |-> oa] :
     k \in 0..MaxLen, c \in RowCells(K), oa \in {None, Some(DefaultAttrs)}}

Pairs(K) == {[sup |-> k, sub |-> k] : k \in K}

\* Nodes without child elements.
LeafNodes ==
  {EnumVal("Op", c) : c \in Chars}
    \cup {EnumVal("Oper", o) : o \in Operators}
    \cup {EnumVal("ResolvedOper", o) : o \in ResolvedOperators}
    \cup {EnumVal(n, x) : n \in {"Text", "Num", "Err", "Str"}, x \in Strings}
    \cup {EnumVal("Id", [t |-> x, normal |-> b]) : x \in Strings, b \in BOOLEAN}
    \cup {EnumVal("Space", x) : x \in Spaces}
    \cup {EnumVal("Padding", x) : x \in Paddings({})}
    \cup {EnumVal(n, <<>>) : n \in {"Phantom", "Row"}}
    \cup {EnumVal("Table", [rows |-> rs]) : rs \in SeqsUpTo(Rows({}), MaxRows)}

\* Nodes with child elements drawn from K.
CompositeNodes(K) ==
  {EnumVal(n, es) : n \in {"Phantom", "Row"}, es \in SeqsUpTo(K, MaxLen) \ {<<>>}}
    \cup {EnumVal("Padding", PlainPadding(es)) : es \in SeqsUpTo(K, MaxLen) \ {<<>>}}
    \cup {EnumVal("Frac", [line_thickness |-> lt, num |-> x, den |-> y]) :
            lt \in OptOf(F32s), x \in K, y \in K}
    \cup {EnumVal("Sqrt", x) : x \in K}
    \cup {EnumVal("Root", [base |-> x, index |-> y]) : x \in K, y \in K}
    \cup {EnumVal("Sup", [base |-> x, sup |-> y]) : x \in K, y \in K}
    \cup {EnumVal("Sub", [base |-> x, sub |-> y]) : x \in K, y \in K}
    \cup {EnumVal("SubSup", [base |-> x, sub |-> y, sup |-> z]) : x \in K, y \in K, z \in K}
    \cup {EnumVal("Over", [base |-> x, over |-> y, accent |-> b]) :
            x \in K, y \in K, b \in BOOLEAN}
    \cup {EnumVal("Under", [base |-> x, under |-> y, accent_under |-> b]) :
            x \in K, y \in K, b \in BOOLEAN}
    \cup {EnumVal("UnderOver", [base |-> x, under |-> y, over |-> z, accent |-> b,
                                accent_under |-> c]) :
            x \in K, y \in K, z \in K, b \in BOOLEAN, c \in BOOLEAN}
    \cup {EnumVal("MultiScript", [base |-> x, post |-> po, pre |-> pr]) :
            x \in K, po \in SeqsUpTo(Pairs(K), MaxLen), pr \in SeqsUpTo(Pairs(K), 1)}
    \cup {EnumVal("Table", [rows |-> rs]) : rs \in SeqsUpTo(Rows(K), MaxRows) \ {<<>>}}

\* Two child elements of each depth: one whose elements all carry
\* attributes, one with an element that carries none.
RECURSIVE AttrKid(_), BareKid(_)
AttrKid(d) ==
  IF d = 0 THEN Elt(EnumVal("Id", [t |-> "x", normal |-> TRUE]), Some(DefaultAttrs))
  ELSE Elt(EnumVal("Row", <<AttrKid(d - 1)>>), Some(FullAttrs))

BareKid(d) ==
  IF d = 0 THEN Elt(EnumVal("Num", "1"), None)
  ELSE Elt(EnumVal("Frac", [line_thickness |-> None, num |-> BareKid(d - 1),
                            den |-> AttrKid(d - 1)]), None)

Kids(d) == {AttrKid(d), BareKid(d)}

Elements ==
  {Elt(n, a) : n \in LeafNodes, a \in {None, Some(DefaultAttrs)}}
    \cup {Elt(EnumVal("Num", "1"), Some(a)) : a \in AttrSet}
    \cup UNION {{Elt(n, a) : n \in CompositeNodes(Kids(d - 1)),
                             a \in {None, Some(DefaultAttrs)}} : d \in 1..MaxDepth}

\* Row([Frac { num: Num("1"), den: Num("2"), line_thickness: None }]), no
\* element with attributes.
FracInRow ==
  Elt(EnumVal("Row",
        <<Elt(EnumVal("Frac", [line_thickness |-> None,
                               num |-> Elt(EnumVal("Num", "1"), None),
                               den |-> Elt(EnumVal("Num", "2"), None)]), None)>>), None)

\* What a producer may hand to the serializer: an Element, or (for the
\* fragment of the same name) a TableCell.
Docs ==
  {[ty |-> "Element", x |-> x] : x \in Elements \cup {FracInRow}}
    \cup {[ty |-> "TableCell", x |-> x] : x \in TableCells(Kids(0))}

(***************************************************************************)
(* Paths into a serialized value: a path is the sequence of map keys to    *)
(* follow from the root.                                                   *)
(***************************************************************************)
RECURSIVE HasPath(_, _), WAt(_, _), WPut(_, _, _), WDrop(_, _), KeyPaths(_, _)

HasPath(w, p) ==
  \/ p = <<>>
  \/ /\ w.t = "Map"
     /\ Head(p) \in DOMAIN w.m
     /\ HasPath(w.m[Head(p)], Tail(p))

WAt(w, p) == IF p = <<>> THEN w ELSE WAt(w.m[Head(p)], Tail(p))

\* w with the value at path p set to v; the last key of p may be new.
WPut(w, p, v) ==
  IF p = <<>> THEN v
  ELSE WMap(MapPut(w.m, Head(p),
                   IF Len(p) = 1 THEN v ELSE WPut(w.m[Head(p)], Tail(p), v)))

\* w without the key that path p ends in.
WDrop(w, p) ==
  IF Len(p) = 1 THEN WMap(MapDel(w.m, Head(p)))
  ELSE WMap(MapPut(w.m, Head(p), WDrop(w.m[Head(p)], Tail(p))))

\* The paths of w of length 1..n.
KeyPaths(w, n) ==
  IF n = 0 \/ w.t # "Map" THEN {}
  ELSE UNION {{<<k>>} \cup {<<k>> \o q : q \in KeyPaths(w.m[k], n - 1)} : k \in DOMAIN w.m}

\* Depth of the keys a foreign producer's omission may hit: the element's
\* own keys, its variant tag, and the fields of the variant's payload.
PayloadDepth == Len(<<"e", "Tag", "field">>)

\* Where the payload of the root element's node is, and the declared
\* fields of that payload (of a struct variant, or of the struct a newtype
\* variant wraps).
NodePath(w) == <<"e", EnumKey(w.m["e"])>>

PayloadFields(tag) ==
  LET vr == VariantOf(MathElement, tag)
  IN  IF vr.shape = "struct" THEN vr.fields
      ELSE IF vr.type.ty = "Named" /\ TypeDef(vr.type.name).kind = "struct"
           THEN TypeDef(vr.type.name).fields
           ELSE <<>>

\* The explicit form of the default a skip rule elides.
ExplicitDefault(f) ==
  CASE f.skip = "is_false" -> WBool(FALSE)
    [] f.skip = "u32_is_one" -> WInt(One)

\* The elided flag and span fields under path p, whose struct has `fields`.
ElidedAt(w, p, fields) ==
  IF ~HasPath(w, p) \/ WAt(w, p).t # "Map" THEN {}
  ELSE {[path |-> p \o <<n>>, value |-> ExplicitDefault(FieldOf(fields, n))] :
          n \in {n \in FieldNames(fields) :
                   /\ FieldOf(fields, n).skip \in {"is_false", "u32_is_one"}
                   /\ n \notin DOMAIN WAt(w, p).m}}

Elided(ty, w) ==
  IF ty = "TableCell" THEN ElidedAt(w, <<>>, TableCell.fields)
  ELSE ElidedAt(w, <<"a">>, Attributes.fields)
         \cup ElidedAt(w, NodePath(w), PayloadFields(EnumKey(w.m["e"])))

\* The character-valued fields present in w.
CharPaths(w) ==
  {p \in {<<"e", "Op">>, <<"e", "Oper", "t">>, <<"e", "ResolvedOper", "t">>} : HasPath(w, p)}

Texts == {"", "+", "+x", "+x+"}

\* The integer-valued places of w: the spans of a TableCell, and the
\* script level of an element's attributes (Set or Add).
IntPaths(ty, w) ==
  IF ty = "TableCell" THEN {<<"col_span">>, <<"row_span">>}
  ELSE IF HasPath(w, <<"a">>) /\ w.m["a"].t = "Map"
       THEN {<<"a", "script_level", "Set">>, <<"a", "script_level", "Add">>}
       ELSE {}

\* Integers at and on either side of the limits of u32 and i32.
BoundaryInts ==
  {BigPred(I32_MIN), I32_MIN, BigPred(Zero), Zero, One, I32_MAX, BigSucc(I32_MAX),
   U32_MAX, BigSucc(U32_MAX)}

\* The size and spacing fields of an operator, and where they are in w
\* (present or not) when w's node is an Oper or a ResolvedOper.
SizeFields == {"max_size", "min_size", "lspace", "rspace"}

LengthPaths(ty, w) ==
  IF ty # "Element" THEN {}
  ELSE {<<"e", tag, f>> : tag \in {tag \in {"Oper", "ResolvedOper"} : HasPath(w, <<"e", tag>>)},
                          f \in SizeFields}

NotATag == "Bogus"

NoEdit == [kind |-> "none", path |-> <<>>, s |-> "", n |-> Zero]

NoWire == [t |-> "Unset"]

(***************************************************************************)
(* The document pipeline: a producer's tree is serialized, the serialized  *)
(* document may be replaced by a foreign producer's variation of it, the   *)
(* validation engine checks it against the schema, and a consumer          *)
(* deserializes it.                                                        *)
(***************************************************************************)
VARIABLES ty, tree, sent, wire, edit, verdict, back, stage

pipeVars == <<ty, tree, sent, wire, edit, verdict, back, stage>>

\* The process-wide cells of schema.rs and the threads that call into them.
VARIABLES docCell, schemaCell, defect, pc, caller, builder, ret, calls, completed

lockVars == <<docCell, schemaCell, defect, pc, caller, builder, ret, calls, completed>>

vars == <<pipeVars, lockVars>>

\* Threads that call schema() and schema_doc().
NThreads == 2

\* Calls each thread makes.
MaxCalls == 2

Threads == 1..NThreads

NoValue == [none |-> TRUE]

NoBuilder == [none |-> TRUE]

\* OnceLock::new()
OnceLockNew == [state |-> "incomplete", value |-> NoValue]

\* No thread has called anything yet, and the schema definition is sound.
LockIdle ==
  /\ docCell = OnceLockNew
  /\ schemaCell = OnceLockNew
  /\ defect = "none"
  /\ pc = [t \in Threads |-> "idle"]
  /\ caller = [t \in Threads |-> "none"]
  /\ builder = [t \in Threads |-> NoBuilder]
  /\ ret = [t \in Threads |-> [schema |-> {}, schema_doc |-> {}]]
  /\ calls = [t \in Threads |-> 0]
  /\ completed = [schema |-> 0, schema_doc |-> 0]

Init ==
  /\ \E d \in Docs : ty = d.ty /\ tree = d.x
  /\ LockIdle
  /\ sent = NoWire
  /\ wire = NoWire
  /\ edit = NoEdit
  /\ verdict = FALSE
  /\ back = Err
  /\ stage = "built"

SerializeDoc ==
  /\ stage = "built"
  /\ sent' = Serialize(TNamed(ty), tree)
  /\ wire' = sent'
  /\ stage' = "serialized"
  /\ UNCHANGED <<ty, tree, edit, verdict, back, lockVars>>

\* A serialized document nobody has replaced yet.
InFlight == stage = "serialized" /\ edit = NoEdit

Foreign(e, w) ==
  /\ edit' = e
  /\ wire' = w
  /\ UNCHANGED <<ty, tree, sent, verdict, back, stage, lockVars>>

\* A document with one key left out.
OmitKey ==
  /\ InFlight
  /\ \E p \in KeyPaths(wire, PayloadDepth) :
    Foreign([NoEdit EXCEPT !.kind = "omit", !.path = p], WDrop(wire, p))

\* A document that writes an elided default out.
WriteDefault ==
  /\ InFlight
  /\ \E x \in Elided(ty, wire) :
    Foreign([NoEdit EXCEPT !.kind = "explicit", !.path = x.path],
            WPut(wire, x.path, x.value))

\* A document whose node tag is none of MathElement's variants.
Retag ==
  /\ InFlight
  /\ ty = "Element"
  /\ Foreign([NoEdit EXCEPT !.kind = "retag", !.path = <<"e">>, !.s = NotATag],
             WPut(wire, <<"e">>,
                  WMap([k \in {NotATag} |-> WAt(wire, NodePath(wire))])))

\* A document whose character field holds text s.
SetText ==
  /\ InFlight
  /\ \E p \in CharPaths(wire), s \in Texts :
    Foreign([NoEdit EXCEPT !.kind = "text", !.path = p, !.s = s], WPut(wire, p, WStr(s)))

\* A document whose integer field holds n.
SetInt ==
  /\ InFlight
  /\ \E p \in IntPaths(ty, wire), n \in BoundaryInts :
    Foreign([NoEdit EXCEPT !.kind = "int", !.path = p, !.n = n],
            IF Len(p) = 1 THEN WPut(wire, p, WInt(n))
            ELSE WPut(wire, <<"a", "script_level">>,
                      WMap([k \in {p[3]} |-> WInt(n)])))

\* A document whose size or spacing field holds a length of unit u.
SetLength ==
  /\ InFlight
  /\ \E p \in LengthPaths(ty, wire), u \in VariantNames(LengthOrFraction) :
    Foreign([NoEdit EXCEPT !.kind = "length", !.path = p, !.s = u],
            WPut(wire, p, WMap([k \in {u} |-> WF32("0.0")])))

ValidateDoc ==
  /\ stage = "serialized"
  /\ verdict' = Validate(SchemaTypes, ValidatorNewRef(ty), wire)
  /\ stage' = "validated"
  /\ UNCHANGED <<ty, tree, sent, wire, edit, back, lockVars>>

DeserializeDoc ==
  /\ stage = "validated"
  /\ back' = Deserialize(TNamed(ty), wire)
  /\ stage' = "deserialized"
  /\ UNCHANGED <<ty, tree, sent, wire, edit, verdict, lockVars>>

Next ==
  \/ SerializeDoc
  \/ OmitKey
  \/ WriteDefault
  \/ Retag
  \/ SetText
  \/ SetInt
  \/ SetLength
  \/ ValidateDoc
  \/ DeserializeDoc

Spec == Init /\ [][Next]_vars

(***************************************************************************)
(* schema() and schema_doc() under concurrency.  OnceLock::get_or_init     *)
(* returns the value of a complete cell; otherwise one caller at a time    *)
(* runs the closure while the others block, and a closure that panics      *)
(* leaves the cell uninitialized.  `defect` says where, if anywhere, the   *)
(* schema definition makes an unwrap() panic: construction is              *)
(* deterministic, so it is fixed for the life of the process.              *)
(***************************************************************************)
MayInitializeUnguarded(cell) == cell.state # "complete"

\* Whether a caller that finds `cell` may run its closure.
MayInitialize(cell) == cell.state \in {"incomplete", "poisoned"}

\* Schema::from_doc: the compiled schema of a schema document.
SchemaFromDoc(d) == [root |-> d.doc, types |-> d.types, name |-> d.name, version |-> d.version]

Return(t, fn, value) ==
  /\ ret' = [ret EXCEPT ![t][fn] = @ \cup {value}]
  /\ calls' = [calls EXCEPT ![t] = @ + 1]
  /\ pc' = [pc EXCEPT ![t] = "idle"]

CallSchema(t) ==
  /\ pc[t] = "idle"
  /\ calls[t] < MaxCalls
  /\ pc' = [pc EXCEPT ![t] = "schema"]
  /\ caller' = [caller EXCEPT ![t] = "schema"]
  /\ UNCHANGED <<docCell, schemaCell, defect, builder, ret, calls, completed, pipeVars>>

CallSchemaDoc(t) ==
  /\ pc[t] = "idle"
  /\ calls[t] < MaxCalls
  /\ pc' = [pc EXCEPT ![t] = "schema_doc"]
  /\ caller' = [caller EXCEPT ![t] = "schema_doc"]
  /\ UNCHANGED <<docCell, schemaCell, defect, builder, ret, calls, completed, pipeVars>>

\* SCHEMA.get_or_init finds the cell complete.
SchemaGet(t) ==
  /\ pc[t] = "schema"
  /\ schemaCell.state = "complete"
  /\ Return(t, "schema", schemaCell.value)
  /\ UNCHANGED <<docCell, schemaCell, defect, caller, builder, completed, pipeVars>>

\* SCHEMA.get_or_init runs its closure, which first calls schema_doc().
SchemaInit(t) ==
  /\ pc[t] = "schema"
  /\ MayInitialize(schemaCell)
  /\ schemaCell' = [schemaCell EXCEPT !.state = "running"]
  /\ pc' = [pc EXCEPT ![t] = "schema_doc"]
  /\ UNCHANGED <<docCell, defect, caller, builder, ret, calls, completed, pipeVars>>

\* SCHEMA_DOC.get_or_init finds the cell complete.
DocGet(t) ==
  /\ pc[t] = "schema_doc"
  /\ docCell.state = "complete"
  /\ IF caller[t] = "schema_doc"
     THEN Return(t, "schema_doc", docCell.value)
     ELSE /\ pc' = [pc EXCEPT ![t] = "from_doc"]
          /\ UNCHANGED <<ret, calls>>
  /\ UNCHANGED <<docCell, schemaCell, defect, caller, builder, completed, pipeVars>>

\* SCHEMA_DOC.get_or_init runs its closure: SchemaBuilder::new(..).
DocInit(t) ==
  /\ pc[t] = "schema_doc"
  /\ MayInitialize(docCell)
  /\ docCell' = [docCell EXCEPT !.state = "running"]
  /\ builder' = [builder EXCEPT ![t] = SchemaBuilderNew(RootValidator)]
  /\ pc' = [pc EXCEPT ![t] = "type_add"]
  /\ UNCHANGED <<schemaCell, defect, caller, ret, calls, completed, pipeVars>>

\* The next .type_add(..) of the chain.
TypeAdd(t) ==
  /\ pc[t] = "type_add"
  /\ LET k == Cardinality(DOMAIN builder[t].types) + 1
     IN  /\ builder' = [builder EXCEPT
                          ![t] = type_add(@, TypeFragments[k].name, TypeFragments[k].vd)]
         /\ pc' = [pc EXCEPT ![t] = IF k = Len(TypeFragments) THEN "build" ELSE "type_add"]
  /\ UNCHANGED <<docCell, schemaCell, defect, caller, ret, calls, completed, pipeVars>>

\* .build().unwrap() succeeds and the cell is set.
BuildOk(t) ==
  /\ pc[t] = "build"
  /\ defect # "build"
  /\ docCell' = [state |-> "complete", value |-> [by |-> t, doc |-> SchemaBuild(builder[t])]]
  /\ completed' = [completed EXCEPT !.schema_doc = @ + 1]
  /\ builder' = [builder EXCEPT ![t] = NoBuilder]
  /\ pc' = [pc EXCEPT ![t] = "schema_doc"]
  /\ UNCHANGED <<schemaCell, defect, caller, ret, calls, pipeVars>>

\* .build().unwrap() panics: the cell stays unset, and the panic unwinds
\* through the closure of SCHEMA when schema() made the call.
BuildPanic(t) ==
  /\ pc[t] = "build"
  /\ defect = "build"
  /\ docCell' = [docCell EXCEPT !.state = "poisoned"]
  /\ schemaCell' = IF caller[t] = "schema" THEN [schemaCell EXCEPT !.state = "poisoned"]
                   ELSE schemaCell
  /\ builder' = [builder EXCEPT ![t] = NoBuilder]
  /\ pc' = [pc EXCEPT ![t] = "panicked"]
  /\ UNCHANGED <<defect, caller, ret, calls, completed, pipeVars>>

\* Schema::from_doc(schema_doc()).unwrap() succeeds and the cell is set.
FromDocOk(t) ==
  /\ pc[t] = "from_doc"
  /\ defect # "from_doc"
  /\ schemaCell' = [state |-> "complete",
                    value |-> [by |-> t, schema |-> SchemaFromDoc(docCell.value.doc)]]
  /\ completed' = [completed EXCEPT !.schema = @ + 1]
  /\ pc' = [pc EXCEPT ![t] = "schema"]
  /\ UNCHANGED <<docCell, defect, caller, builder, ret, calls, pipeVars>>

\* Schema::from_doc(schema_doc()).unwrap() panics.
FromDocPanic(t) ==
  /\ pc[t] = "from_doc"
  /\ defect = "from_doc"
  /\ schemaCell' = [schemaCell EXCEPT !.state = "poisoned"]
  /\ pc' = [pc EXCEPT ![t] = "panicked"]
  /\ UNCHANGED <<docCell, defect, caller, builder, ret, calls, completed, pipeVars>>

\* One document, never processed, while the threads run.
PipeIdle ==
  /\ ty = "Element"
  /\ tree = BareKid(0)
  /\ sent = NoWire
  /\ wire = NoWire
  /\ edit = NoEdit
  /\ verdict = FALSE
  /\ back = Err
  /\ stage = "built"

InitOnce ==
  /\ PipeIdle
  /\ docCell = OnceLockNew
  /\ schemaCell = OnceLockNew
  /\ defect \in {"none", "build", "from_doc"}
  /\ pc = [t \in Threads |-> "idle"]
  /\ caller = [t \in Threads |-> "none"]
  /\ builder = [t \in Threads |-> NoBuilder]
  /\ ret = [t \in Threads |-> [schema |-> {}, schema_doc |-> {}]]
  /\ calls = [t \in Threads |-> 0]
  /\ completed = [schema |-> 0, schema_doc |-> 0]

NextOnce ==
  \E t \in Threads :
    \/ CallSchema(t)
    \/ CallSchemaDoc(t)
    \/ SchemaGet(t)
    \/ SchemaInit(t)
    \/ DocGet(t)
    \/ DocInit(t)
    \/ TypeAdd(t)
    \/ BuildOk(t)
    \/ BuildPanic(t)
    \/ FromDocOk(t)
    \/ FromDocPanic(t)

SpecOnce == InitOnce /\ [][NextOnce]_vars

(***************************************************************************)
(* Properties.                                                             *)
(***************************************************************************)
Checked == {"validated", "deserialized"}

\* The document the engine saw is the serializer's own output.
Untouched == edit = NoEdit

\* The document as serialized was valid, so a verdict on its variation is
\* a verdict on the variation alone.
BaseValid == Validate(SchemaTypes, ValidatorNewRef(ty), sent)

\* C1: every serialized Element validates against the schema.
C1_SchemaSoundness ==
  (stage \in Checked /\ Untouched /\ ty = "Element") => verdict

\* C2: serializing a tree (defaults elided) and deserializing the result
\* (absent fields defaulted) yields the tree.
C2_RoundTrip ==
  (stage = "deserialized" /\ Untouched) => back = Ok(tree)

C2_Witness ==
  /\ stage = "deserialized"
  /\ Untouched
  /\ ty = "TableCell"
  /\ tree.col_span = One
  /\ tree.elems # <<>>
  /\ DOMAIN wire.m = {"elems"}
  /\ back = Ok(tree)

\* The malformed documents of the corpus: an unknown node tag, a Frac
\* without den, a Sup without sup, character text of two or more
\* characters, a negative span.
Malformed ==
  \/ edit.kind = "retag"
  \/ edit.kind = "omit" /\ edit.path \in {<<"e", "Frac", "den">>, <<"e", "Sup", "sup">>}
  \/ edit.kind = "text" /\ Len(edit.s) >= 2
  \/ /\ edit.kind = "int"
     /\ edit.path \in {<<"col_span">>, <<"row_span">>}
     /\ ~BigLE(Zero, edit.n)

\* C3: the schema rejects each malformed document of the corpus.
C3_SchemaCompleteness ==
  (stage \in Checked /\ Malformed) => ~verdict

C3_Witness ==
  /\ stage \in Checked
  /\ edit.kind = "omit"
  /\ edit.path = <<"e", "Frac", "den">>
  /\ BaseValid
  /\ ~verdict

\* The form enums of a type registry: the registered one and the two
\* inline ones.
FormEnums(types) ==
  {types["OpForm"],
   types["Element"].req["e"].variants["Oper"].opt["form"],
   types["Element"].req["e"].variants["ResolvedOper"].req["form"]}

\* C4: in the built schema, each tagged union declares exactly the variants
\* of the data model: 23 node variants, 18 character variants, 3 forms in
\* every form enum, Add/Set, Em/Ex, Em/Ex/Frac.
C4_EnumExhaustiveness ==
  docCell.state = "complete" =>
    LET types == docCell.value.doc.types
    IN  /\ DOMAIN types["Element"].req["e"].variants = VariantNames(MathElement)
        /\ Cardinality(DOMAIN types["Element"].req["e"].variants) = 23
        /\ types["Attributes"].opt["variant"].in = VariantNames(Variant)
        /\ Cardinality(types["Attributes"].opt["variant"].in) = 18
        /\ \A fe \in FormEnums(types) :
             /\ DOMAIN fe.variants = VariantNames(OpForm)
             /\ Cardinality(DOMAIN fe.variants) = 3
        /\ DOMAIN types["Attributes"].opt["script_level"].variants
             = VariantNames(ScriptLevel)
        /\ VariantNames(ScriptLevel) = {"Add", "Set"}
        /\ DOMAIN types["Length"].variants = VariantNames(Length)
        /\ VariantNames(Length) = {"Em", "Ex"}
        /\ DOMAIN types["LengthOrFraction"].variants = VariantNames(LengthOrFraction)
        /\ VariantNames(LengthOrFraction) = {"Em", "Ex", "Frac"}

C4_Witness ==
  /\ docCell.state = "complete"
  /\ \E t \in Threads : ret[t].schema_doc # {}

\* C5: each cell's closure runs to completion at most once, every call
\* returns the value of the cell, and that value is the whole schema.
C5_SingleInit ==
  /\ completed.schema_doc <= 1
  /\ completed.schema <= 1
  /\ \A t \in Threads :
       /\ ret[t].schema_doc # {} =>
            /\ docCell.state = "complete"
            /\ ret[t].schema_doc = {docCell.value}
            /\ docCell.value.doc = SchemaDoc
       /\ ret[t].schema # {} =>
            /\ schemaCell.state = "complete"
            /\ ret[t].schema = {schemaCell.value}
            /\ schemaCell.value.schema = SchemaFromDoc(SchemaDoc)

C5_Witness ==
  /\ completed.schema_doc = 1
  /\ completed.schema = 1
  /\ \A t \in Threads : ret[t].schema_doc # {} /\ ret[t].schema # {}
  /\ \E t \in Threads : docCell.value.by # t
  /\ \E t \in Threads : schemaCell.value.by # t

\* C6: a span or flag written out at its default is validated like, and
\* deserializes to the same value as, the document that omits it.
C6_DefaultElision ==
  (stage = "deserialized" /\ edit.kind = "explicit") =>
    /\ verdict = BaseValid
    /\ back = Deserialize(TNamed(ty), sent)

C6_Witness ==
  /\ stage = "deserialized"
  /\ edit.kind = "explicit"
  /\ edit.path = <<"col_span">>
  /\ wire.m["col_span"] = WInt(One)
  /\ "col_span" \notin DOMAIN sent.m
  /\ verdict
  /\ back = Ok(tree)

\* C7: a character-valued field (Op, Oper.t, ResolvedOper.t) is accepted
\* exactly when its text has one character.
C7_ExactlyOneChar ==
  (stage \in Checked /\ edit.kind = "text" /\ BaseValid) => (verdict <=> Len(edit.s) = 1)

\* C8: Row([Frac { num: Num("1"), den: Num("2") }]) without attributes
\* serializes with a Frac map of exactly the keys num and den, and
\* validates.
C8_FracInRow ==
  (stage \in Checked /\ Untouched /\ ty = "Element" /\ tree = FracInRow) =>
    /\ DOMAIN wire.m["e"].m["Row"].items[1].m["e"].m["Frac"].m = {"num", "den"}
    /\ verdict

\* A serialized ResolvedOper in an element that carries attributes.
IsResolvedOper ==
  /\ ty = "Element"
  /\ TagOf(tree.e) = "ResolvedOper"
  /\ tree.a.opt = "Some"

ResolvedOperScenario(count) ==
  (stage \in Checked /\ IsResolvedOper) =>
    /\ Cardinality(FieldNames(ResolvedOperator.fields)) = count
    /\ Untouched =>
         /\ DOMAIN wire.m["e"].m["ResolvedOper"].m = FieldNames(ResolvedOperator.fields)
         /\ verdict
    /\ (edit.kind = "omit" /\ Len(edit.path) = 3) => ~verdict

\* C9 (as stated): a ResolvedOper with one of its fields omitted is
\* rejected, and with all eleven present it validates.
C9_ElevenFields == ResolvedOperScenario(11)

\* C9 (amended): a ResolvedOper with one of its fields omitted is rejected,
\* and with all twelve present it validates.
C9_TwelveFields == ResolvedOperScenario(12)

C9_Witness ==
  /\ stage \in Checked
  /\ IsResolvedOper
  /\ edit.kind = "omit"
  /\ edit.path = <<"e", "ResolvedOper", "fence">>
  /\ BaseValid
  /\ ~verdict

\* C10: an integer field (col_span, row_span, script level Set and Add) is
\* accepted by the schema exactly when the model's u32 / i32 can hold it.
C10_NumericDomains ==
  (stage = "deserialized" /\ edit.kind = "int" /\ BaseValid) =>
    /\ verdict <=> back.ok
    /\ verdict <=> IF edit.path[Len(edit.path)] = "Add" THEN FitsI32(edit.n)
                   ELSE FitsU32(edit.n)

C10_Witness ==
  /\ stage = "deserialized"
  /\ edit.kind = "int"
  /\ edit.path = <<"col_span">>
  /\ edit.n = U32_MAX
  /\ BaseValid
  /\ verdict
  /\ back.ok

\* The fields of an operator other than its character.
OperatorOptions == FieldNames(Operator.fields) \ {"t"}

\* An edit of field-depth made to a node of the given tag.
EditOf(kind, tag) ==
  /\ edit.kind = kind
  /\ Len(edit.path) = PayloadDepth
  /\ edit.path[2] = tag

\* C11: in an Oper payload each field but t may be absent and the size and
\* spacing fields take Em, Ex or Frac; in a ResolvedOper payload each of
\* those fields is mandatory and the size and spacing fields take only Em
\* or Ex.
C11_OperShapes ==
  LET variants == SchemaTypes["Element"].req["e"].variants
  IN  /\ DOMAIN variants["Oper"].opt = OperatorOptions
      /\ OperatorOptions \subseteq DOMAIN variants["ResolvedOper"].req
      /\ Cardinality(OperatorOptions) = 11
      /\ (stage \in Checked /\ BaseValid) =>
            /\ EditOf("omit", "Oper") => (verdict <=> edit.path[3] \in OperatorOptions)
            /\ EditOf("omit", "ResolvedOper") => ~verdict
            /\ EditOf("length", "Oper") => verdict
            /\ EditOf("length", "ResolvedOper") => (verdict <=> edit.s \in {"Em", "Ex"})

C11_Witness ==
  /\ stage \in Checked
  /\ BaseValid
  /\ EditOf("length", "ResolvedOper")
  /\ edit.s = "Frac"
  /\ ~verdict

\* A cell whose closure panicked has its closure started again.
Retried(cell, cell2) == cell.state = "poisoned" /\ cell2.state = "running"

\* C12: once a build has failed (the unwrap in schema_doc() or schema()
\* panicked), no later or concurrent call runs the build closure of that
\* cell again.
C12_NeverRetried ==
  [][~Retried(docCell, docCell') /\ ~Retried(schemaCell, schemaCell')]_vars

\* A serialized element whose node is a Table.
IsTable ==
  /\ stage \in Checked
  /\ Untouched
  /\ ty = "Element"
  /\ TagOf(tree.e) = "Table"

\* The cells of the rows of a serialized sequence of rows.
CellsOf(rows) ==
  UNION {IF "cells" \in DOMAIN rows[i].m
         THEN {rows[i].m["cells"].items[j] : j \in DOMAIN rows[i].m["cells"].items}
         ELSE {} : i \in DOMAIN rows}

\* C13: the payload serialized for a Table node is accepted by the payload
\* shape the schema declares for Table, and each of its cells validates as
\* a TableCell.
C13_TablePayload ==
  IsTable =>
    LET payload == WAt(wire, <<"e", "Table">>)
    IN  /\ Validate(SchemaTypes, SchemaTypes["Element"].req["e"].variants["Table"], payload)
        /\ \A c \in CellsOf(payload.m["rows"].items) :
             Validate(SchemaTypes, ValidatorNewRef("TableCell"), c)

\* The schema's top-level validator accepts w as the document, or as the one
\* item of the document.
AdmittedAsDocument(w) ==
  \/ Validate(SchemaTypes, SchemaDoc.doc, w)
  \/ Validate(SchemaTypes, SchemaDoc.doc, WArray(<<w>>))

\* C14: a serialized Element that validates against the "Element" fragment
\* is accepted by the schema's top-level validator, as the document or as
\* an item of it.
C14_RootAdmitsElement ==
  (stage \in Checked /\ Untouched /\ ty = "Element" /\ verdict) => AdmittedAsDocument(wire)

\* The type names a validator refers to.
RECURSIVE Refs(_)
Refs(vd) ==
  CASE vd.v = "Ref" -> {vd.name}
    [] vd.v = "Array" -> Refs(vd.items)
    [] vd.v = "Map" ->
         UNION {Refs(vd.req[k]) : k \in DOMAIN vd.req}
           \cup UNION {Refs(vd.opt[k]) : k \in DOMAIN vd.opt}
           \cup Refs(vd.values)
    [] vd.v = "Enum" -> UNION {Refs(vd.variants[k]) : k \in DOMAIN vd.variants}
    [] OTHER -> {}

\* The type names a schema document refers to, from its root validator or
\* from a registered fragment.
AllRefs(d) == Refs(d.doc) \cup UNION {Refs(d.types[n]) : n \in DOMAIN d.types}

\* C15: when the build has completed, every type a validator of the schema
\* refers to by name is a registered fragment, the references made before
\* their target was registered (Pair to Element, Element to TableCell)
\* included.
C15_NoDanglingRefs ==
  docCell.state = "complete" =>
    LET d == docCell.value.doc
    IN  /\ AllRefs(d) \subseteq DOMAIN d.types
        /\ {"Element", "Attributes", "Length", "LengthOrFraction", "Pair", "TableCell"}
             \subseteq DOMAIN d.types

C15_Witness ==
  /\ docCell.state = "complete"
  /\ "Element" \in Refs(docCell.value.doc.types["Pair"])
  /\ "TableCell" \in Refs(docCell.value.doc.types["Element"])
  /\ \E i, j \in DOMAIN TypeFragments :
       i < j /\ TypeFragments[i].name = "Pair" /\ TypeFragments[j].name = "Element"
  /\ \E t \in Threads : ret[t].schema_doc # {}

====
